---- MODULE Spec2Model ----
(***************************************************************************)
(* A model of the asynchronous chain fixer of go/fixchain/fixer.go: the    *)
(* Fixer, its pool of fixServer workers, QueueChain, Wait and              *)
(* updateCounters.  handleChain, newDedupedChain and the URL cache are     *)
(* called by fixer.go but defined in other files of the package; they are  *)
(* modelled from the design document (sections 4.3, 4.4, 3).               *)
(***************************************************************************)
EXTENDS Integers, Sequences, FiniteSets, TLC

\* ------------------------------------------------------------------ bounds
MaxWorkers == 2
MaxJobs == 2

\* A uint32 is kept as its two 16-bit halves [hi, lo], value hi * 2^16 + lo,
\* so that the arithmetic modulo 2^32 is exact.
Half == 65536

Uint32(n) == [hi |-> n \div Half, lo |-> n % Half]

\* ^uint32(1), all bits set but the lowest: adding it subtracts two
AllOnesButOne == [hi |-> Half - 1, lo |-> Half - 2]

\* ^uint32(0), all bits set
AllOnes == [hi |-> Half - 1, lo |-> Half - 1]

\* atomic.AddUint32: addition modulo 2^32
AddUint32(x, d) ==
  [hi |-> (x.hi + d.hi + ((x.lo + d.lo) \div Half)) % Half,
   lo |-> (x.lo + d.lo) % Half]

\* ------------------------------------------------------- certificate world
\* A small PKI.  R is the trusted root, I an intermediate issued by R; L, J
\* and K are leaves issued by I; X is unrelated to all of them.
Certs == {"R", "I", "L", "J", "K", "X"}

URLs == {"u1", "u2"}

issuer == [c \in Certs |->
            CASE c = "R" -> "R"
              [] c = "I" -> "R"
              [] c = "L" -> "I"
              [] c = "J" -> "I"
              [] c = "K" -> "I"
              [] OTHER   -> "X"]

\* issuer-access hints embedded in a certificate, in the order they appear
hints == [c \in Certs |->
            CASE c = "L" -> <<"u1">>
              [] c = "J" -> <<"u1", "u2">>
              [] c = "K" -> <<"u2", "u1">>
              [] OTHER   -> <<>>]

\* what a URL serves when the fetch succeeds
URLTarget == [u \in URLs |-> IF u = "u1" THEN "I" ELSE "X"]

\* the root pools a caller may pass, by identity
RootPools == [P1 |-> {"R"}]

VerifyFailed == "VerifyFailed"
FixFailed == "FixFailed"

FixError(t) == [Type |-> t]

\* The (certificate, chain, roots) triples callers submit.
JobInputs ==
  { [cert |-> "L", chain |-> <<"L", "I", "R">>, roots |-> "P1"],
    [cert |-> "L", chain |-> <<"L", "L", "I", "I", "R">>, roots |-> "P1"],
    [cert |-> "L", chain |-> <<"L", "R">>, roots |-> "P1"],
    [cert |-> "L", chain |-> <<"L">>, roots |-> "P1"],
    [cert |-> "J", chain |-> <<"J", "R">>, roots |-> "P1"],
    [cert |-> "K", chain |-> <<"K", "R">>, roots |-> "P1"],
    [cert |-> "X", chain |-> <<"X">>, roots |-> "P1"] }

\* ---------------------------------------------------------- pure functions
\* Consecutive duplicate certificates collapse to one.
RECURSIVE newDedupedChain(_)
newDedupedChain(chain) ==
  IF Len(chain) <= 1 THEN chain
  ELSE IF chain[1] = chain[2] THEN newDedupedChain(Tail(chain))
  ELSE <<chain[1]>> \o newDedupedChain(Tail(chain))

\* Construct: the chain starts at the leaf, every entry is issued by the
\* next one, and the last entry is a root of the pool.
constructChain(cert, chain, roots) ==
  /\ Len(chain) >= 1
  /\ chain[1] = cert
  /\ \A i \in 1..(Len(chain) - 1) : issuer[chain[i]] = chain[i + 1]
  /\ chain[Len(chain)] \in RootPools[roots]

RECURSIVE Distinct(_)
Distinct(s) ==
  IF s = <<>> THEN <<>>
  ELSE LET front == Distinct(SubSeq(s, 1, Len(s) - 1))
           last  == s[Len(s)]
       IN IF \E i \in 1..Len(front) : front[i] = last
          THEN front ELSE Append(front, last)

RECURSIVE AllHints(_)
AllHints(chain) ==
  IF chain = <<>> THEN <<>> ELSE hints[chain[1]] \o AllHints(Tail(chain))

\* The candidate URLs of a broken chain: the distinct hints of its
\* certificates, in the order discovered.
candidateURLs(chain) == Distinct(AllHints(chain))

\* Insert a fetched certificate right after the first entry it issued; a
\* certificate that issued no entry (or is already there) is not inserted.
insertCert(chain, c) ==
  LET at == { i \in 1..Len(chain) : issuer[chain[i]] = c /\ chain[i] # c }
  IN IF at = {} \/ \E i \in 1..Len(chain) : chain[i] = c
     THEN chain
     ELSE LET i == CHOOSE k \in at : \A m \in at : k <= m
          IN SubSeq(chain, 1, i) \o <<c>> \o SubSeq(chain, i + 1, Len(chain))

\* updateCounters without the return after notFixed++.
updateCountersNoReturn(ferrs) ==
  LET verifyFailed == \E i \in 1..Len(ferrs) : ferrs[i].Type = VerifyFailed
      fixFailed    == \E i \in 1..Len(ferrs) : ferrs[i].Type = FixFailed
  IN IF verifyFailed
     THEN IF fixFailed THEN <<"notReconstructed", "notFixed", "fixed">>
                       ELSE <<"notReconstructed", "fixed">>
     ELSE <<"reconstructed">>

\* updateCounters that returns on FixFailed before counting it.
updateCountersNoNotFixed(ferrs) ==
  LET verifyFailed == \E i \in 1..Len(ferrs) : ferrs[i].Type = VerifyFailed
      fixFailed    == \E i \in 1..Len(ferrs) : ferrs[i].Type = FixFailed
  IN IF verifyFailed
     THEN IF fixFailed THEN <<"notReconstructed">>
                       ELSE <<"notReconstructed", "fixed">>
     ELSE <<"reconstructed">>

\* The counter fields updateCounters increments, in program order.
updateCounters(ferrs) ==
  LET verifyFailed == \E i \in 1..Len(ferrs) : ferrs[i].Type = VerifyFailed
      fixFailed    == \E i \in 1..Len(ferrs) : ferrs[i].Type = FixFailed
  IN IF verifyFailed
     THEN IF fixFailed THEN <<"notReconstructed", "notFixed">>
                       ELSE <<"notReconstructed", "fixed">>
     ELSE <<"reconstructed">>

CounterNames ==
  {"reconstructed", "notReconstructed", "fixed", "notFixed", "skipped", "alreadyDone"}

\* ------------------------------------------------------------------- state
VARIABLES
  workerCount,   \* the workerCount NewFixer was called with
  toFixClosed,   \* close(f.toFix) has happened
  wg,            \* f.wg: workers that have not called Done
  waitPc,        \* the caller of Wait: "idle", "waiting" (in wg.Wait) or "returned"
  panicked,      \* the process died of a send on the closed toFix channel
  qPc,           \* each QueueChain call: "idle", "sending" (blocked on the send) or "returned"
  qFix,          \* the toFix value each QueueChain call is sending
  pc,            \* each worker's position in fixServer
  fix,           \* the toFix value a worker received
  chain,         \* handleChain: the chain as repaired so far
  cands,         \* handleChain: the candidate URLs not yet tried
  chains,        \* handleChain's first result
  ferrs,         \* handleChain's second result
  idx,           \* the index of the loop a worker is in
  tmp,           \* the counter value a worker read for its increment
  cache,         \* the URL caches: URL -> "none", "inflight", "fail" or a certificate
  active,        \* f.active
  counters,      \* the uint counters of the Fixer
  done,          \* f.done, the set of processed fingerprints
  fetches,       \* history: underlying fetches started per URL
  observed,      \* history: the fetch results callers were given, per URL
  tried,         \* history: the URLs each job asked the cache for, in order
  recvd,         \* history: how often each job was received by a worker
  result,        \* history: what handleChain returned for each job
  bumped,        \* history: the counters a worker's updateCounters call wrote
  errorsOut,     \* history: the FixErrors sent to f.errors, per job
  chainsOut,     \* history: the chains sent to f.chains, per job
  qIn            \* history: the arguments each QueueChain call was given

vars == <<workerCount, toFixClosed, wg, waitPc, panicked, qPc, qFix, pc, fix,
          chain, cands, chains, ferrs, idx, tmp, cache, active, counters, done,
          fetches, observed, tried, recvd, result, bumped, errorsOut, chainsOut,
          qIn>>

Jobs == 1..MaxJobs
Workers == 1..workerCount

NoFix == [id |-> 0]
NoResult == [none |-> TRUE]

\* the cache NewFixer creates; fixer.go creates no other
SharedCache == 0
CacheIds == {SharedCache} \cup Jobs

\* newToFix with a cache of the job's own instead of the Fixer's.
newToFixOwnCache(j, cert, ch, roots) ==
  [id |-> j, cert |-> cert, chain |-> newDedupedChain(ch), roots |-> roots,
   cache |-> j]

\* newToFix that stores the chain as it was passed.
newToFixAsGiven(j, cert, ch, roots) ==
  [id |-> j, cert |-> cert, chain |-> ch, roots |-> roots,
   cache |-> SharedCache]

\* The toFix value QueueChain builds for call j.
newToFix(j, cert, ch, roots) ==
  [id |-> j, cert |-> cert, chain |-> newDedupedChain(ch), roots |-> roots,
   cache |-> SharedCache]

\* The fingerprint of a job: leaf, deduplicated chain, root pool.
Fingerprint(f) == <<f.cert, f.chain, f.roots>>

\* NewFixer has returned: the channel is open, the pool is started.
Init ==
  /\ workerCount \in 0..MaxWorkers
  /\ toFixClosed = FALSE
  /\ wg = workerCount
  /\ waitPc = "idle"
  /\ panicked = FALSE
  /\ qPc = [j \in Jobs |-> "idle"]
  /\ qFix = [j \in Jobs |-> NoFix]
  /\ pc = [w \in Workers |-> "range"]
  /\ fix = [w \in Workers |-> NoFix]
  /\ chain = [w \in Workers |-> <<>>]
  /\ cands = [w \in Workers |-> <<>>]
  /\ chains = [w \in Workers |-> <<>>]
  /\ ferrs = [w \in Workers |-> <<>>]
  /\ idx = [w \in Workers |-> 0]
  /\ tmp = [w \in Workers |-> 0]
  /\ cache = [c \in CacheIds |-> [u \in URLs |-> "none"]]
  /\ active = Uint32(0)
  /\ counters = [c \in CounterNames |-> 0]
  /\ done = {}
  /\ fetches = [u \in URLs |-> 0]
  /\ observed = [u \in URLs |-> {}]
  /\ tried = [j \in Jobs |-> <<>>]
  /\ recvd = [j \in Jobs |-> 0]
  /\ result = [j \in Jobs |-> NoResult]
  /\ bumped = [w \in Workers |-> <<>>]
  /\ errorsOut = [j \in Jobs |-> <<>>]
  /\ chainsOut = [j \in Jobs |-> <<>>]
  /\ qIn = [j \in Jobs |-> NoFix]

\* ------------------------------------------------------------ QueueChain
\* QueueChain that hands the send to a goroutine and returns at once.
QueueChainAsync(j, inp) ==
  /\ ~panicked
  /\ qPc[j] = "idle"
  /\ \A k \in Jobs : k < j => qPc[k] # "idle"
  /\ qPc' = [qPc EXCEPT ![j] = "returned"]
  /\ qFix' = [qFix EXCEPT ![j] = newToFix(j, inp.cert, inp.chain, inp.roots)]
  /\ qIn' = [qIn EXCEPT ![j] = inp]
  /\ UNCHANGED <<workerCount, toFixClosed, wg, waitPc, panicked, pc, fix, chain, cands,
                 chains, ferrs, idx, tmp, cache, active, counters, done, fetches,
                 observed, tried, recvd, result, bumped, errorsOut, chainsOut>>

\* QueueChain is called: the toFix value is built and the caller blocks on
\* the send to the unbuffered channel.  Calls are numbered in call order.
QueueChain(j, inp) ==
  /\ ~panicked
  /\ qPc[j] = "idle"
  /\ \A k \in Jobs : k < j => qPc[k] # "idle"
  /\ qPc' = [qPc EXCEPT ![j] = "sending"]
  /\ qFix' = [qFix EXCEPT ![j] = newToFix(j, inp.cert, inp.chain, inp.roots)]
  /\ qIn' = [qIn EXCEPT ![j] = inp]
  /\ UNCHANGED <<workerCount, toFixClosed, wg, waitPc, panicked, pc, fix, chain, cands,
                 chains, ferrs, idx, tmp, cache, active, counters, done, fetches,
                 observed, tried, recvd, result, bumped, errorsOut, chainsOut>>

\* A send blocked on (or started after) the close of toFix panics.
SendOnClosed(j) ==
  /\ ~panicked
  /\ qPc[j] = "sending"
  /\ toFixClosed
  /\ panicked' = TRUE
  /\ UNCHANGED <<workerCount, toFixClosed, wg, waitPc, qPc, qFix, pc, fix, chain,
                 cands, chains, ferrs, idx, tmp, cache, active, counters, done,
                 fetches, observed, tried, recvd, result, bumped, errorsOut, chainsOut,
                 qIn>>

\* ------------------------------------------------------------------- Wait
\* close(f.toFix)
WaitClose ==
  /\ ~panicked
  /\ waitPc = "idle"
  /\ toFixClosed' = TRUE
  /\ waitPc' = "waiting"
  /\ UNCHANGED <<workerCount, wg, panicked, qPc, qFix, pc, fix, chain, cands, chains,
                 ferrs, idx, tmp, cache, active, counters, done, fetches, observed,
                 tried, recvd, result, bumped, errorsOut, chainsOut, qIn>>

\* Wait that returns without waiting for the workers.
WaitReturnNoWait ==
  /\ ~panicked
  /\ waitPc = "waiting"
  /\ waitPc' = "returned"
  /\ UNCHANGED <<workerCount, toFixClosed, wg, panicked, qPc, qFix, pc, fix, chain,
                 cands, chains, ferrs, idx, tmp, cache, active, counters, done,
                 fetches, observed, tried, recvd, result, bumped, errorsOut, chainsOut,
                 qIn>>

\* f.wg.Wait() returns once every worker has called Done.
WaitReturn ==
  /\ ~panicked
  /\ waitPc = "waiting"
  /\ wg = 0
  /\ waitPc' = "returned"
  /\ UNCHANGED <<workerCount, toFixClosed, wg, panicked, qPc, qFix, pc, fix, chain,
                 cands, chains, ferrs, idx, tmp, cache, active, counters, done,
                 fetches, observed, tried, recvd, result, bumped, errorsOut, chainsOut,
                 qIn>>

\* -------------------------------------------------------------- fixServer
\* A receive that leaves the value on offer to the other workers.
ReceiveNoDequeue(w, j) ==
  /\ ~panicked
  /\ pc[w] = "range"
  /\ ~toFixClosed
  /\ qPc[j] = "sending"
  /\ fix' = [fix EXCEPT ![w] = qFix[j]]
  /\ recvd' = [recvd EXCEPT ![j] = @ + 1]
  /\ pc' = [pc EXCEPT ![w] = "addActive"]
  /\ UNCHANGED <<workerCount, toFixClosed, wg, waitPc, panicked, qPc, qFix, chain,
                 cands, chains, ferrs, idx, tmp, cache, active, counters, done,
                 fetches, observed, tried, result, bumped, errorsOut, chainsOut, qIn>>

\* The rendezvous on the unbuffered channel: worker w, blocked in the range
\* loop, receives what call j is sending, and the call returns.
Receive(w, j) ==
  /\ ~panicked
  /\ pc[w] = "range"
  /\ ~toFixClosed
  /\ qPc[j] = "sending"
  /\ fix' = [fix EXCEPT ![w] = qFix[j]]
  /\ qPc' = [qPc EXCEPT ![j] = "returned"]
  /\ recvd' = [recvd EXCEPT ![j] = @ + 1]
  /\ pc' = [pc EXCEPT ![w] = "addActive"]
  /\ UNCHANGED <<workerCount, toFixClosed, wg, waitPc, panicked, qFix, chain, cands,
                 chains, ferrs, idx, tmp, cache, active, counters, done, fetches,
                 observed, tried, result, bumped, errorsOut, chainsOut, qIn>>

\* fixServer that returns after a job that came back with errors.
ExitLoopOnError(w) ==
  /\ ~panicked
  /\ IF pc[w] = "range" THEN toFixClosed
     ELSE pc[w] = "sendErrors" /\ idx[w] = 1
  /\ pc' = [pc EXCEPT ![w] = "exited"]
  /\ wg' = wg - 1
  /\ UNCHANGED <<workerCount, toFixClosed, waitPc, panicked, qPc, qFix, fix, chain,
                 cands, chains, ferrs, idx, tmp, cache, active, counters, done,
                 fetches, observed, tried, recvd, result, bumped, errorsOut, chainsOut,
                 qIn>>

\* The range loop ends on the closed channel; the deferred wg.Done runs.
ExitLoop(w) ==
  /\ ~panicked
  /\ pc[w] = "range"
  /\ toFixClosed
  /\ pc' = [pc EXCEPT ![w] = "exited"]
  /\ wg' = wg - 1
  /\ UNCHANGED <<workerCount, toFixClosed, waitPc, panicked, qPc, qFix, fix, chain,
                 cands, chains, ferrs, idx, tmp, cache, active, counters, done,
                 fetches, observed, tried, recvd, result, bumped, errorsOut, chainsOut,
                 qIn>>

\* atomic.AddUint32(&f.active, 1)
AddActive(w) ==
  /\ ~panicked
  /\ pc[w] = "addActive"
  /\ active' = AddUint32(active, Uint32(1))
  /\ pc' = [pc EXCEPT ![w] = "handleChain"]
  /\ UNCHANGED <<workerCount, toFixClosed, wg, waitPc, panicked, qPc, qFix, fix, chain,
                 cands, chains, ferrs, idx, tmp, cache, counters, done, fetches,
                 observed, tried, recvd, result, bumped, errorsOut, chainsOut, qIn>>

\* handleChain returns (cs, fs) to worker w, which goes on to updateCounters.
Returns(w, cs, fs) ==
  /\ chains' = [chains EXCEPT ![w] = cs]
  /\ ferrs' = [ferrs EXCEPT ![w] = fs]
  /\ result' = [result EXCEPT ![fix[w].id] = [chains |-> cs, ferrs |-> fs]]
  /\ chain' = [chain EXCEPT ![w] = <<>>]
  /\ cands' = [cands EXCEPT ![w] = <<>>]
  /\ bumped' = [bumped EXCEPT ![w] = <<>>]
  /\ idx' = [idx EXCEPT ![w] = 1]
  /\ pc' = [pc EXCEPT ![w] = "ucLoad"]

\* Continues that forgets the VerifyFailed error when the fix fails.
ContinuesNoVerifyFailed(w, ch, cs, fs) ==
  IF cs = <<>>
  THEN Returns(w, <<>>, <<FixError(FixFailed)>>)
  ELSE /\ chain' = [chain EXCEPT ![w] = ch]
       /\ cands' = [cands EXCEPT ![w] = cs]
       /\ ferrs' = [ferrs EXCEPT ![w] = fs]
       /\ pc' = [pc EXCEPT ![w] = "fixChain"]
       /\ UNCHANGED <<chains, result, bumped, idx>>

\* Continues that drops an exhausted job without reporting anything.
ContinuesDrop(w, ch, cs, fs) ==
  IF cs = <<>>
  THEN Returns(w, <<>>, <<>>)
  ELSE /\ chain' = [chain EXCEPT ![w] = ch]
       /\ cands' = [cands EXCEPT ![w] = cs]
       /\ ferrs' = [ferrs EXCEPT ![w] = fs]
       /\ pc' = [pc EXCEPT ![w] = "fixChain"]
       /\ UNCHANGED <<chains, result, bumped, idx>>

\* The fix of worker w goes on with chain ch, the candidates cs and the
\* errors fs so far; with no candidate left the fix has failed.
Continues(w, ch, cs, fs) ==
  IF cs = <<>>
  THEN Returns(w, <<>>, Append(fs, FixError(FixFailed)))
  ELSE /\ chain' = [chain EXCEPT ![w] = ch]
       /\ cands' = [cands EXCEPT ![w] = cs]
       /\ ferrs' = [ferrs EXCEPT ![w] = fs]
       /\ pc' = [pc EXCEPT ![w] = "fixChain"]
       /\ UNCHANGED <<chains, result, bumped, idx>>

\* handleChain, steps 2 and 3: Construct on the chain as submitted; a failure
\* is recorded as VerifyFailed and the fix begins.  handleChain is a method of
\* the toFix value, which QueueChain builds from cert, chain, roots and
\* f.cache alone: it is given neither f.done nor the Fixer, so it has no
\* processed set to consult and no skipped counter to increment, and nothing
\* in fixer.go touches either.
HandleChain(w) ==
  /\ ~panicked
  /\ pc[w] = "handleChain"
  /\ IF constructChain(fix[w].cert, fix[w].chain, fix[w].roots)
     THEN Returns(w, <<fix[w].chain>>, <<>>)
     ELSE Continues(w, fix[w].chain, candidateURLs(fix[w].chain),
                    <<FixError(VerifyFailed)>>)
  /\ UNCHANGED <<workerCount, toFixClosed, wg, waitPc, panicked, qPc, qFix, fix, tmp,
                 cache, active, counters, done, fetches, observed, tried, recvd,
                 errorsOut, chainsOut, qIn>>

\* UseFetched that asks for the same candidate again after a failed fetch.
UseFetchedRetry(w, r) ==
  /\ observed' = [observed EXCEPT ![Head(cands[w])] = @ \cup {r}]
  /\ IF r = "fail"
     THEN Continues(w, chain[w], cands[w], ferrs[w])
     ELSE LET ch == insertCert(chain[w], r)
          IN IF constructChain(fix[w].cert, ch, fix[w].roots)
             THEN Returns(w, <<ch>>, ferrs[w])
             ELSE Continues(w, ch, Tail(cands[w]), ferrs[w])

\* UseFetched that goes on to the next candidate after Construct succeeded.
UseFetchedNoStop(w, r) ==
  /\ observed' = [observed EXCEPT ![Head(cands[w])] = @ \cup {r}]
  /\ IF r = "fail"
     THEN Continues(w, chain[w], Tail(cands[w]), ferrs[w])
     ELSE LET ch == insertCert(chain[w], r)
          IN IF constructChain(fix[w].cert, ch, fix[w].roots) /\ Tail(cands[w]) = <<>>
             THEN Returns(w, <<ch>>, ferrs[w])
             ELSE Continues(w, ch, Tail(cands[w]), ferrs[w])

\* What the fix does with the outcome r of the fetch of its candidate.
UseFetched(w, r) ==
  /\ observed' = [observed EXCEPT ![Head(cands[w])] = @ \cup {r}]
  /\ IF r = "fail"
     THEN Continues(w, chain[w], Tail(cands[w]), ferrs[w])
     ELSE LET ch == insertCert(chain[w], r)
          IN IF constructChain(fix[w].cert, ch, fix[w].roots)
             THEN Returns(w, <<ch>>, ferrs[w])
             ELSE Continues(w, ch, Tail(cands[w]), ferrs[w])

\* handleChain, step 4: the next candidate is looked up in the cache.  A miss
\* starts the underlying fetch; a resolved entry is used; a lookup of an entry
\* another worker is fetching waits for it.
CacheGet(w) ==
  /\ ~panicked
  /\ pc[w] = "fixChain"
  /\ LET u == Head(cands[w])
         e == cache[fix[w].cache][u]
     IN /\ e # "inflight"
        /\ tried' = [tried EXCEPT ![fix[w].id] = Append(@, u)]
        /\ IF e = "none"
           THEN /\ cache' = [cache EXCEPT ![fix[w].cache][u] = "inflight"]
                /\ fetches' = [fetches EXCEPT ![u] = @ + 1]
                /\ pc' = [pc EXCEPT ![w] = "fetching"]
                /\ UNCHANGED <<chain, cands, chains, ferrs, result, bumped, idx, observed>>
           ELSE /\ UseFetched(w, e)
                /\ UNCHANGED <<cache, fetches>>
  /\ UNCHANGED <<workerCount, toFixClosed, wg, waitPc, panicked, qPc, qFix, fix, tmp,
                 active, counters, done, recvd, errorsOut, chainsOut, qIn>>

\* The underlying fetch of worker w returns: a failure, or the certificate
\* the URL serves.  The outcome is recorded in the cache either way.
FetchReturns(w, r) ==
  /\ ~panicked
  /\ pc[w] = "fetching"
  /\ r \in {"fail", URLTarget[Head(cands[w])]}
  /\ cache' = [cache EXCEPT ![fix[w].cache][Head(cands[w])] = r]
  /\ UseFetched(w, r)
  /\ UNCHANGED <<workerCount, toFixClosed, wg, waitPc, panicked, qPc, qFix, fix, tmp,
                 active, counters, done, fetches, tried, recvd, errorsOut, chainsOut,
                 qIn>>

\* fixServer that goes back to the range loop after the loop over ferrs.
LoopOrNextNoChains(w, at, i) ==
  IF at = "sendErrors" /\ i <= Len(ferrs[w]) THEN "sendErrors"
  ELSE "decActive"

\* Where fixServer goes from position i of the loop named at.
LoopOrNext(w, at, i) ==
  IF at = "sendErrors" /\ i <= Len(ferrs[w]) THEN "sendErrors"
  ELSE IF at = "sendErrors" /\ chains[w] # <<>> THEN "sendChains"
  ELSE IF at = "sendChains" /\ i <= Len(chains[w]) THEN "sendChains"
  ELSE "decActive"

\* updateCounters: one increment of a plain uint field is a read ...
CounterLoad(w) ==
  /\ ~panicked
  /\ pc[w] = "ucLoad"
  /\ tmp' = [tmp EXCEPT ![w] = counters[updateCounters(ferrs[w])[idx[w]]]]
  /\ pc' = [pc EXCEPT ![w] = "ucStore"]
  /\ UNCHANGED <<workerCount, toFixClosed, wg, waitPc, panicked, qPc, qFix, fix, chain,
                 cands, chains, ferrs, idx, cache, active, counters, done, fetches,
                 observed, tried, recvd, result, bumped, errorsOut, chainsOut, qIn>>

\* ... and a write of the value read plus one; after the last increment
\* updateCounters returns and the loop over ferrs begins.
CounterStore(w) ==
  /\ ~panicked
  /\ pc[w] = "ucStore"
  /\ counters' = [counters EXCEPT ![updateCounters(ferrs[w])[idx[w]]] = tmp[w] + 1]
  /\ bumped' = [bumped EXCEPT ![w] = Append(@, updateCounters(ferrs[w])[idx[w]])]
  /\ tmp' = [tmp EXCEPT ![w] = 0]
  /\ IF idx[w] < Len(updateCounters(ferrs[w]))
     THEN /\ idx' = [idx EXCEPT ![w] = @ + 1]
          /\ pc' = [pc EXCEPT ![w] = "ucLoad"]
     ELSE /\ idx' = [idx EXCEPT ![w] = 1]
          /\ pc' = [pc EXCEPT ![w] = LoopOrNext(w, "sendErrors", 1)]
  /\ UNCHANGED <<workerCount, toFixClosed, wg, waitPc, panicked, qPc, qFix, fix, chain,
                 cands, chains, ferrs, cache, active, done, fetches, observed, tried,
                 recvd, result, errorsOut, chainsOut, qIn>>

\* A loop over ferrs that moves on before the error has been taken.
SendErrorNoWait(w) ==
  /\ ~panicked
  /\ pc[w] = "sendErrors"
  /\ pc' = [pc EXCEPT ![w] = LoopOrNext(w, "sendErrors", idx[w] + 1)]
  /\ idx' = [idx EXCEPT ![w] =
               IF LoopOrNext(w, "sendErrors", idx[w] + 1) = "sendErrors" THEN @ + 1 ELSE 1]
  /\ UNCHANGED <<workerCount, toFixClosed, wg, waitPc, panicked, qPc, qFix, fix, chain,
                 cands, chains, ferrs, tmp, cache, active, counters, done, fetches,
                 observed, tried, recvd, result, bumped, errorsOut, chainsOut, qIn>>

\* f.errors <- ferr: the send completes when the consumer takes the error.
SendError(w) ==
  /\ ~panicked
  /\ pc[w] = "sendErrors"
  /\ errorsOut' = [errorsOut EXCEPT ![fix[w].id] = Append(@, ferrs[w][idx[w]])]
  /\ pc' = [pc EXCEPT ![w] = LoopOrNext(w, "sendErrors", idx[w] + 1)]
  /\ idx' = [idx EXCEPT ![w] =
               IF LoopOrNext(w, "sendErrors", idx[w] + 1) = "sendErrors" THEN @ + 1 ELSE 1]
  /\ UNCHANGED <<workerCount, toFixClosed, wg, waitPc, panicked, qPc, qFix, fix, chain,
                 cands, chains, ferrs, tmp, cache, active, counters, done, fetches,
                 observed, tried, recvd, result, bumped, chainsOut, qIn>>

\* A loop over chains that moves on without sending the chain.
SendChainDrop(w) ==
  /\ ~panicked
  /\ pc[w] = "sendChains"
  /\ pc' = [pc EXCEPT ![w] = LoopOrNext(w, "sendChains", idx[w] + 1)]
  /\ idx' = [idx EXCEPT ![w] =
               IF LoopOrNext(w, "sendChains", idx[w] + 1) = "sendChains" THEN @ + 1 ELSE 1]
  /\ UNCHANGED <<workerCount, toFixClosed, wg, waitPc, panicked, qPc, qFix, fix, chain,
                 cands, chains, ferrs, tmp, cache, active, counters, done, fetches,
                 observed, tried, recvd, result, bumped, errorsOut, chainsOut, qIn>>

\* f.chains <- chain: the send completes when the consumer takes the chain.
SendChain(w) ==
  /\ ~panicked
  /\ pc[w] = "sendChains"
  /\ chainsOut' = [chainsOut EXCEPT ![fix[w].id] = Append(@, chains[w][idx[w]])]
  /\ pc' = [pc EXCEPT ![w] = LoopOrNext(w, "sendChains", idx[w] + 1)]
  /\ idx' = [idx EXCEPT ![w] =
               IF LoopOrNext(w, "sendChains", idx[w] + 1) = "sendChains" THEN @ + 1 ELSE 1]
  /\ UNCHANGED <<workerCount, toFixClosed, wg, waitPc, panicked, qPc, qFix, fix, chain,
                 cands, chains, ferrs, tmp, cache, active, counters, done, fetches,
                 observed, tried, recvd, result, bumped, errorsOut, qIn>>

\* atomic.AddUint32(&f.active, ^uint32(0)), then back to the range loop
DecActive(w) ==
  /\ ~panicked
  /\ pc[w] = "decActive"
  /\ active' = AddUint32(active, AllOnes)
  /\ pc' = [pc EXCEPT ![w] = "range"]
  /\ fix' = [fix EXCEPT ![w] = NoFix]
  /\ chains' = [chains EXCEPT ![w] = <<>>]
  /\ ferrs' = [ferrs EXCEPT ![w] = <<>>]
  /\ bumped' = [bumped EXCEPT ![w] = <<>>]
  /\ idx' = [idx EXCEPT ![w] = 0]
  /\ UNCHANGED <<workerCount, toFixClosed, wg, waitPc, panicked, qPc, qFix, chain,
                 cands, tmp, cache, counters, done, fetches, observed, tried, recvd,
                 result, errorsOut, chainsOut, qIn>>

Next ==
  \/ \E j \in Jobs, inp \in JobInputs : QueueChain(j, inp)
  \/ \E j \in Jobs : SendOnClosed(j)
  \/ WaitClose
  \/ WaitReturn
  \/ \E w \in Workers, j \in Jobs : Receive(w, j)
  \/ \E w \in Workers : ExitLoop(w)
  \/ \E w \in Workers : AddActive(w)
  \/ \E w \in Workers : HandleChain(w)
  \/ \E w \in Workers : CacheGet(w)
  \/ \E w \in Workers, r \in Certs \cup {"fail"} : FetchReturns(w, r)
  \/ \E w \in Workers : CounterLoad(w)
  \/ \E w \in Workers : CounterStore(w)
  \/ \E w \in Workers : SendError(w)
  \/ \E w \in Workers : SendChain(w)
  \/ \E w \in Workers : DecActive(w)

Spec == Init /\ [][Next]_vars


\* --------------------------------------------------------------- progress
\* A caller that keeps to the contract of Wait: no QueueChain call is made
\* once Wait has been called ...
CallerQueueChain(j, inp) ==
  /\ waitPc = "idle"
  /\ QueueChain(j, inp)

\* ... and Wait is called when no QueueChain call is still blocked.
CallerWait ==
  /\ \A j \in Jobs : qPc[j] # "sending"
  /\ WaitClose

\* One step of the fixServer goroutine w.  The sends are steps of the worker:
\* they complete when the consumer of the sink reads.
WorkerStep(w) ==
  /\ w \in Workers
  /\ \/ \E j \in Jobs : Receive(w, j)
     \/ ExitLoop(w)
     \/ AddActive(w)
     \/ HandleChain(w)
     \/ CacheGet(w)
     \/ \E r \in Certs \cup {"fail"} : FetchReturns(w, r)
     \/ CounterLoad(w)
     \/ CounterStore(w)
     \/ SendError(w)
     \/ SendChain(w)
     \/ DecActive(w)

LiveNext ==
  \/ \E j \in Jobs, inp \in JobInputs : CallerQueueChain(j, inp)
  \/ CallerWait
  \/ WaitReturn
  \/ \E w \in Workers : WorkerStep(w)

\* Every goroutine that can take a step eventually does: the scheduler runs
\* every runnable goroutine, both sinks are read again and again, and every
\* fetch returns.
LiveSpec ==
  /\ Init
  /\ [][LiveNext]_vars
  /\ WF_vars(WaitReturn)
  /\ \A w \in 1..MaxWorkers : WF_vars(WorkerStep(w))

\* ============================================================ properties
VF == FixError(VerifyFailed)
FF == FixError(FixFailed)

\* handleChain has returned for job j and everything it returned has been
\* sent to the sinks.
Published(j) ==
  /\ result[j] # NoResult
  /\ errorsOut[j] = result[j].ferrs
  /\ chainsOut[j] = result[j].chains

\* Job j was received and its worker has gone back to the range loop.
Finished(j) == recvd[j] >= 1 /\ \A w \in Workers : fix[w].id # j

IsPrefix(s, t) == Len(s) <= Len(t) /\ s = SubSeq(t, 1, Len(s))

Range(s) == { s[i] : i \in 1..Len(s) }

\* C1: Wait returns only after every worker has left its loop and every job
\* whose QueueChain call returned has had all it produced sent to the sinks.
C1_DrainAfterAllPublished ==
  waitPc = "returned" =>
    /\ \A w \in Workers : pc[w] = "exited"
    /\ \A j \in Jobs : qPc[j] = "returned" => Published(j)

C1_Witness ==
  /\ waitPc = "returned"
  /\ workerCount = 2
  /\ \A j \in Jobs : qPc[j] = "returned" /\ Published(j)
  /\ \E j \in Jobs : result[j].ferrs # <<>> /\ result[j].chains # <<>>

\* C2: every job is received exactly once, by one worker, when its call
\* returns; what is on the sinks for a job is a prefix of the one output set
\* handleChain returned for it; a job whose call returned is held by a worker
\* or fully published.
C2_NoLossNoDuplicate ==
  \A j \in Jobs :
    /\ recvd[j] = IF qPc[j] = "returned" THEN 1 ELSE 0
    /\ Cardinality({ w \in Workers : fix[w].id = j }) <= 1
    /\ IF result[j] = NoResult
       THEN errorsOut[j] = <<>> /\ chainsOut[j] = <<>>
       ELSE IsPrefix(errorsOut[j], result[j].ferrs) /\ IsPrefix(chainsOut[j], result[j].chains)
    /\ qPc[j] = "returned" => (\E w \in Workers : fix[w].id = j) \/ Published(j)

C2_Witness ==
  /\ workerCount = 2
  /\ \A j \in Jobs : Finished(j) /\ Published(j)
  /\ \A i, j \in Jobs : i # j => qFix[i] # qFix[j] /\ Fingerprint(qFix[i]) # Fingerprint(qFix[j])

\* C3: at most workerCount jobs are accepted and not yet fully published; a
\* QueueChain call returns only in the step in which a worker waiting in the
\* range loop receives its job; with no worker waiting no call returns.
C3_UnbufferedBackpressure ==
  /\ [](Cardinality({ j \in Jobs : qPc[j] = "returned" /\ ~Published(j) }) <= workerCount)
  /\ [][\A j \in Jobs :
          (qPc[j] = "sending" /\ qPc'[j] = "returned") =>
            \E w \in Workers :
              pc[w] = "range" /\ pc'[w] = "addActive" /\ fix'[w] = qFix[j]]_vars
  /\ [][(\A w \in Workers : pc[w] # "range") =>
          \A j \in Jobs : qPc[j] = "sending" => qPc'[j] = "sending"]_vars

C3_Witness ==
  /\ workerCount = 1
  /\ ~toFixClosed
  /\ pc[1] = "sendErrors"
  /\ \E j \in Jobs : qPc[j] = "sending"
  /\ \E j \in Jobs : qPc[j] = "returned"

\* C4: of two submissions with the same fingerprint only one produces output;
\* the other publishes nothing and is counted in skipped.
C4_ResubmissionSkipped ==
  \A i, j \in Jobs :
    (i < j /\ qPc[i] = "returned" /\ qPc[j] = "returned"
       /\ Fingerprint(qFix[i]) = Fingerprint(qFix[j])) =>
      /\ \/ errorsOut[i] = <<>> /\ chainsOut[i] = <<>>
         \/ errorsOut[j] = <<>> /\ chainsOut[j] = <<>>
      /\ (Finished(i) /\ Finished(j)) => counters["skipped"] >= 1

\* Worker w has gone past the start of handleChain into Construct and Fix.
PastCheck(w) ==
  /\ pc[w] \in {"fixChain", "fetching", "ucLoad", "ucStore", "sendErrors",
                "sendChains", "decActive"}
  /\ chains[w] # <<>> \/ ferrs[w] # <<>>

\* C5: two workers holding jobs with the same fingerprint never both go on
\* to construct or fix the chain.
C5_OneWorkerPerFingerprint ==
  \A w, v \in Workers :
    (w # v /\ fix[w] # NoFix /\ fix[v] # NoFix
       /\ Fingerprint(fix[w]) = Fingerprint(fix[v])) =>
      ~(PastCheck(w) /\ PastCheck(v))

\* C6: the underlying fetch runs at most once per URL, and every caller that
\* asked for the URL was given the one result the cache holds for it.
C6_FetchSingleFlight ==
  \A u \in URLs :
    /\ fetches[u] <= 1
    /\ Cardinality(observed[u]) <= 1
    /\ observed[u] # {} => observed[u] = {cache[SharedCache][u]}

C6_Witness ==
  \E i, j \in Jobs :
    /\ i # j
    /\ result[i] # NoResult /\ result[j] # NoResult
    /\ "u1" \in Range(tried[i]) /\ "u1" \in Range(tried[j])
    /\ fetches["u1"] = 1
    /\ cache[SharedCache]["u1"] = "fail"

\* C7: the errors of a job are none, VerifyFailed alone, or VerifyFailed
\* followed by FixFailed, in what handleChain returns and on the error sink.
C7_ErrorShapes ==
  \A j \in Jobs :
    /\ result[j] # NoResult => result[j].ferrs \in {<<>>, <<VF>>, <<VF, FF>>}
    /\ errorsOut[j] \in {<<>>, <<VF>>, <<VF, FF>>}
    /\ \A w \in Workers : ferrs[w] \in {<<>>, <<VF>>, <<VF, FF>>}

C7_Witness ==
  \E j \in Jobs :
    /\ Finished(j)
    /\ result[j].ferrs = <<VF, FF>>
    /\ errorsOut[j] = <<VF, FF>>

\* The counters the rule names for the errors of a job.
RuleCounters(fs) ==
  IF VF \notin Range(fs) THEN {"reconstructed"}
  ELSE IF FF \notin Range(fs) THEN {"fixed", "notReconstructed"}
  ELSE {"notFixed", "notReconstructed"}

\* C8: every write of an updateCounters call sets one counter the rule names
\* to the value read plus one and touches nothing else; when the call returns
\* it has written each counter of the rule once; reads change nothing.
C8_UpdateCountersRule ==
  [][\A w \in Workers :
       /\ (pc[w] = "ucStore" /\ pc'[w] # "ucStore") =>
            /\ \E c \in RuleCounters(ferrs[w]) :
                 counters' = [counters EXCEPT ![c] = tmp[w] + 1]
            /\ UNCHANGED <<active, errorsOut, chainsOut, done>>
       /\ (pc[w] = "ucStore" /\ pc'[w] \notin {"ucLoad", "ucStore"}) =>
            /\ Len(bumped'[w]) = Cardinality(RuleCounters(ferrs[w]))
            /\ Range(bumped'[w]) = RuleCounters(ferrs[w])
       /\ (pc[w] = "ucLoad" /\ pc'[w] # "ucLoad") =>
            /\ tmp'[w] \in { counters[c] : c \in RuleCounters(ferrs[w]) }
            /\ UNCHANGED <<counters, active, errorsOut, chainsOut, done>>]_vars

C8_Witness ==
  \E w \in Workers :
    /\ pc[w] = "sendErrors"
    /\ ferrs[w] = <<VF>>
    /\ bumped[w] = <<"notReconstructed", "fixed">>
    /\ counters["fixed"] = 1 /\ counters["notReconstructed"] = 1
    /\ counters["notFixed"] = 0 /\ counters["reconstructed"] = 0

\* The chain after the certificates served by the candidates in S were
\* inserted, in candidate order.
RECURSIVE InsertFrom(_, _, _, _)
InsertFrom(ch, cs, k, S) ==
  IF k > Len(cs) THEN ch
  ELSE InsertFrom(IF k \in S THEN insertCert(ch, URLTarget[cs[k]]) ELSE ch, cs, k + 1, S)

\* No choice of fetches turns the chain of f into one Construct accepts.
NoFetchablePath(f) ==
  \A S \in SUBSET (1..Len(candidateURLs(f.chain))) :
    ~constructChain(f.cert, InsertFrom(f.chain, candidateURLs(f.chain), 1, S), f.roots)

\* The chain of f is broken and either its only hint URL failed to resolve
\* or it holds the leaf alone with no fetchable path to a root.
ExhaustedCase(f) ==
  /\ ~constructChain(f.cert, f.chain, f.roots)
  /\ \/ /\ Len(candidateURLs(f.chain)) = 1
        /\ cache[f.cache][candidateURLs(f.chain)[1]] = "fail"
     \/ /\ f.chain = <<f.cert>>
        /\ NoFetchablePath(f)

\* C9: a job in the exhausted case returns one VerifyFailed and one FixFailed
\* and no chain, never sends a chain, and has both errors on the error sink
\* when its worker is done with it.
C9_ExhaustionReported ==
  \A j \in Jobs :
    (result[j] # NoResult /\ ExhaustedCase(qFix[j])) =>
      /\ result[j] = [chains |-> <<>>, ferrs |-> <<VF, FF>>]
      /\ chainsOut[j] = <<>>
      /\ Finished(j) => errorsOut[j] = <<VF, FF>>

C9_Witness ==
  \E j \in Jobs :
    /\ Finished(j)
    /\ qFix[j].chain = <<"L", "R">>
    /\ cache[SharedCache]["u1"] = "fail"
    /\ errorsOut[j] = <<VF, FF>>
    /\ chainsOut[j] = <<>>

\* The candidates of f whose fetched certificate completes the chain of f.
Completing(f) ==
  { k \in 1..Len(candidateURLs(f.chain)) :
      /\ cache[f.cache][candidateURLs(f.chain)[k]] \in Certs
      /\ constructChain(f.cert,
                        insertCert(f.chain, cache[f.cache][candidateURLs(f.chain)[k]]),
                        f.roots) }

\* C10: a job whose broken chain is completed by one fetched certificate
\* returns VerifyFailed alone and the chain leaf, fetched certificate, root;
\* it asked the cache for the candidates up to the first completing one and
\* for none after it; its worker, once done, has sent exactly that.
C10_RepairStopsAtSuccess ==
  \A j \in Jobs :
    (/\ result[j] # NoResult
     /\ ~constructChain(qFix[j].cert, qFix[j].chain, qFix[j].roots)
     /\ Completing(qFix[j]) # {}) =>
      LET f  == qFix[j]
          cs == candidateURLs(f.chain)
          k  == CHOOSE n \in Completing(f) : \A m \in Completing(f) : n <= m
          c  == cache[f.cache][cs[k]]
      IN /\ result[j] = [chains |-> <<insertCert(f.chain, c)>>, ferrs |-> <<VF>>]
         /\ result[j].chains[1][1] = f.cert
         /\ c \in Range(result[j].chains[1])
         /\ result[j].chains[1][Len(result[j].chains[1])] \in RootPools[f.roots]
         /\ tried[j] = SubSeq(cs, 1, k)
         /\ Finished(j) => errorsOut[j] = <<VF>> /\ chainsOut[j] = result[j].chains

C10_Witness ==
  \E j \in Jobs :
    /\ Finished(j)
    /\ qFix[j].cert = "J" /\ qFix[j].chain = <<"J", "R">>
    /\ tried[j] = <<"u1">>
    /\ errorsOut[j] = <<VF>>
    /\ chainsOut[j] = << <<"J", "I", "R">> >>

\* C11: a job whose submitted chain Construct accepts returns no error and
\* that chain, unmodified; it asks the cache for nothing; nothing goes to the
\* error sink for it, and its worker, once done, has sent exactly that chain.
C11_SoundWithoutFetch ==
  \A j \in Jobs :
    (/\ result[j] # NoResult
     /\ constructChain(qFix[j].cert, qFix[j].chain, qFix[j].roots)) =>
      /\ result[j] = [chains |-> <<qFix[j].chain>>, ferrs |-> <<>>]
      /\ tried[j] = <<>>
      /\ errorsOut[j] = <<>>
      /\ Finished(j) => chainsOut[j] = <<qFix[j].chain>>

C11_Witness ==
  \E j \in Jobs :
    /\ Finished(j)
    /\ qFix[j].chain = <<"L", "I", "R">>
    /\ chainsOut[j] = << <<"L", "I", "R">> >>
    /\ errorsOut[j] = <<>>
    /\ fetches = [u \in URLs |-> 0]

\* C12: the chain QueueChain enqueues is the deduplicated form of the chain
\* it was given and has no two equal adjacent certificates; a chain given with
\* consecutive duplicates gets the fingerprint of the same chain given with the
\* duplicates already removed, and two jobs that differ only in such
\* duplicates return the same results.
NoAdjacentEqual(s) == \A i \in 1..(Len(s) - 1) : s[i] # s[i + 1]

C12_DedupBeforeEnqueue ==
  /\ \A j \in Jobs :
       qFix[j] # NoFix =>
         /\ NoAdjacentEqual(qFix[j].chain)
         /\ qFix[j].chain = newDedupedChain(qIn[j].chain)
         /\ Fingerprint(qFix[j]) =
              Fingerprint(newToFix(j, qIn[j].cert, newDedupedChain(qIn[j].chain),
                                   qIn[j].roots))
  /\ \A i, j \in Jobs :
       (/\ result[i] # NoResult
        /\ result[j] # NoResult
        /\ qIn[i].cert = qIn[j].cert
        /\ qIn[i].roots = qIn[j].roots
        /\ newDedupedChain(qIn[i].chain) = newDedupedChain(qIn[j].chain)) =>
         result[i] = result[j]

C12_Witness ==
  \E i, j \in Jobs :
    /\ Finished(i) /\ Finished(j)
    /\ qIn[i].chain = <<"L", "L", "I", "I", "R">>
    /\ qIn[j].chain = <<"L", "I", "R">>
    /\ qFix[i].chain = <<"L", "I", "R">>
    /\ chainsOut[i] = chainsOut[j]

\* C13: NewFixer never hands out a Fixer with zero workers, so no QueueChain
\* call is ever blocked on a Fixer that has no worker to receive from it.
C13_ZeroWorkersRejected ==
  ~(workerCount = 0 /\ \E j \in Jobs : qPc[j] = "sending")

Busy(w) == pc[w] \notin {"range", "exited"}

\* C14: a worker holds one job from the receive to the end of the loop body;
\* a job received and not yet fully published is held by exactly one busy
\* worker, and when a worker receives, every job received before that no
\* other worker holds has all its outputs published.
C14_OneJobAtATime ==
  /\ [](\A j \in Jobs :
          (recvd[j] >= 1 /\ ~Published(j)) =>
            /\ \E w \in Workers : fix[w].id = j /\ Busy(w)
            /\ \A v, w \in Workers : (fix[v].id = j /\ fix[w].id = j) => v = w)
  /\ [][\A w \in Workers :
          (pc[w] = "range" /\ pc'[w] = "addActive") =>
            /\ fix[w] = NoFix
            /\ \A j \in Jobs :
                 (recvd[j] >= 1 /\ \A v \in Workers \ {w} : fix[v].id # j) =>
                   Published(j)]_vars

C14_Witness ==
  /\ workerCount = 1
  /\ \E i, j \in Jobs :
       /\ i # j
       /\ Finished(i) /\ Published(i)
       /\ result[i].ferrs # <<>> /\ result[i].chains # <<>>
       /\ fix[1].id = j
       /\ pc[1] = "addActive"

\* C15: a worker leaves its loop only from the range statement and only once
\* toFix is closed; until the close the whole pool is alive, whatever the jobs
\* returned; a busy worker goes nowhere but on through its job, and it is back
\* at the range statement only with its job fully published, also when the
\* close came while it held the job.
C15_ExitOnlyOnClose ==
  /\ [](~toFixClosed => (wg = workerCount /\ \A w \in Workers : pc[w] # "exited"))
  /\ [](\A w \in Workers : pc[w] = "exited" => toFixClosed /\ fix[w] = NoFix)
  /\ [][\A w \in Workers :
          /\ (pc[w] # "exited" /\ pc'[w] = "exited") =>
               (pc[w] = "range" /\ toFixClosed)
          /\ (Busy(w) /\ pc'[w] = "range") =>
               (pc[w] = "decActive" /\ Published(fix[w].id))
          /\ Busy(w) => (fix'[w] = fix[w] \/ pc'[w] = "range")]_vars

C15_Witness ==
  /\ toFixClosed
  /\ \E v, w \in Workers, j \in Jobs :
       /\ pc[v] = "exited"
       /\ fix[w].id = j
       /\ pc[w] = "sendErrors"
       /\ ferrs[w] = <<VF, FF>>
       /\ errorsOut[j] = <<VF>>

\* C16: the fix of a job asks for its candidate URLs once each, in the order
\* discovered: what it has asked for is a prefix of the duplicate-free
\* candidate list, what is left to ask shrinks by one with each lookup, and
\* the job returns either with one chain and no FixFailed, or with FixFailed
\* last, after the whole list.
C16_FixTerminates ==
  /\ \A j \in Jobs :
       qFix[j] # NoFix =>
         LET cs == candidateURLs(qFix[j].chain)
         IN /\ IsPrefix(tried[j], cs)
            /\ \A a, b \in 1..Len(tried[j]) : tried[j][a] = tried[j][b] => a = b
            /\ result[j] # NoResult =>
                 IF result[j].chains # <<>>
                 THEN /\ Len(result[j].chains) = 1
                      /\ FF \notin Range(result[j].ferrs)
                 ELSE /\ tried[j] = cs
                      /\ result[j].ferrs[Len(result[j].ferrs)] = FF
  /\ \A w \in Workers :
       pc[w] \in {"fixChain", "fetching"} =>
         LET j  == fix[w].id
             cs == candidateURLs(fix[w].chain)
             n  == IF pc[w] = "fetching" THEN Len(tried[j]) ELSE Len(tried[j]) + 1
         IN /\ cands[w] # <<>>
            /\ cands[w] = SubSeq(cs, n, Len(cs))

C16_Witness ==
  \E j \in Jobs :
    /\ Finished(j)
    /\ qFix[j].chain = <<"K", "R">>
    /\ tried[j] = <<"u2", "u1">>
    /\ fetches = [u \in URLs |-> 1]
    /\ observed["u1"] = {"fail"}
    /\ result[j] = [chains |-> <<>>, ferrs |-> <<VF, FF>>]

\* C17: with both sinks read again and again and every fetch returning,
\* every QueueChain call blocked on its send returns and every Wait call
\* returns; and Wait has not returned while a worker is blocked on a send to
\* a sink.
C17_ProgressWhenSinksRead ==
  /\ \A j \in Jobs : (qPc[j] = "sending") ~> (qPc[j] = "returned")
  /\ (waitPc = "waiting") ~> (waitPc = "returned")
  /\ [](\A w \in Workers :
          pc[w] \in {"sendErrors", "sendChains"} => waitPc # "returned")

\* Progress of a Fixer that has a worker: the same, for workerCount >= 1.
ProgressWithWorkers ==
  workerCount >= 1 =>
    /\ \A j \in Jobs : (qPc[j] = "sending") ~> (qPc[j] = "returned")
    /\ (waitPc = "waiting") ~> (waitPc = "returned")

\* The workers at one of the positions ps of fixServer.
WorkersAt(ps) == { w \in Workers : pc[w] \in ps }

\* C18 as stated: active is always the number of workers that have received
\* a job and not yet sent the last of its outputs, it lies in 0..workerCount,
\* and it is 0 once Wait has returned.
C18_ActiveIsDequeuedCount ==
  /\ active = Uint32(Cardinality(WorkersAt({"addActive", "handleChain", "fixChain",
                                             "fetching", "ucLoad", "ucStore",
                                             "sendErrors", "sendChains"})))
  /\ active.hi = 0 /\ active.lo <= workerCount
  /\ waitPc = "returned" => active = Uint32(0)

\* C18, amended: active is always the number of workers between the
\* increment of line 85 and the decrement of line 94, which is taken one step
\* after the receive and given back one step after the last send; it lies in
\* 0..workerCount, so no decrement wraps below zero, and it is 0 once Wait has
\* returned.
C18_ActiveBetweenAddAndDec ==
  /\ active = Uint32(Cardinality(WorkersAt({"handleChain", "fixChain", "fetching",
                                             "ucLoad", "ucStore", "sendErrors",
                                             "sendChains", "decActive"})))
  /\ active.hi = 0 /\ active.lo <= workerCount
  /\ \A w \in Workers : pc[w] = "decActive" => active # Uint32(0)
  /\ waitPc = "returned" => active = Uint32(0)

C18_Witness ==
  /\ workerCount = 2
  /\ active = Uint32(1)
  /\ pc[1] = "range" /\ pc[2] = "decActive"
  /\ \E j \in Jobs : Finished(j)

\* C19: a worker has made every counter increment of its job before it sends
\* anything of it; the errors of a job reach the error sink in the order
\* handleChain returned them, and no chain of the job is on the chain sink
\* before all of them are.
C19_CountersThenErrorsThenChains ==
  /\ \A j \in Jobs :
       IF result[j] = NoResult
       THEN errorsOut[j] = <<>> /\ chainsOut[j] = <<>>
       ELSE /\ IsPrefix(errorsOut[j], result[j].ferrs)
            /\ IsPrefix(chainsOut[j], result[j].chains)
            /\ chainsOut[j] # <<>> => errorsOut[j] = result[j].ferrs
  /\ \A w \in Workers :
       /\ pc[w] \in {"ucLoad", "ucStore"} =>
            /\ errorsOut[fix[w].id] = <<>> /\ chainsOut[fix[w].id] = <<>>
            /\ IsPrefix(bumped[w], updateCounters(ferrs[w]))
       /\ pc[w] \in {"sendErrors", "sendChains", "decActive"} =>
            bumped[w] = updateCounters(ferrs[w])
       /\ pc[w] = "sendChains" => errorsOut[fix[w].id] = ferrs[w]

C19_Witness ==
  \E w \in Workers :
    /\ pc[w] = "sendChains"
    /\ ferrs[w] = <<VF>>
    /\ errorsOut[fix[w].id] = <<VF>>
    /\ chainsOut[fix[w].id] = <<>>
    /\ bumped[w] = <<"notReconstructed", "fixed">>

\* C20: with one worker, whenever the worker is not inside updateCounters,
\* reconstructed + fixed + notFixed is the number of jobs handleChain has
\* returned for (each was passed to updateCounters), notReconstructed is
\* fixed + notFixed, and skipped and alreadyDone are untouched; and no step
\* lowers a counter.
C20_SingleWorkerCountersExact ==
  /\ []((workerCount = 1 /\ pc[1] \notin {"ucLoad", "ucStore"}) =>
          /\ counters["reconstructed"] + counters["fixed"] + counters["notFixed"]
               = Cardinality({ j \in Jobs : result[j] # NoResult })
          /\ counters["notReconstructed"] = counters["fixed"] + counters["notFixed"]
          /\ \A c \in CounterNames :
               counters[c] = Cardinality({ j \in Jobs :
                                 /\ result[j] # NoResult
                                 /\ c \in Range(updateCounters(result[j].ferrs)) }))
  /\ [][workerCount = 1 => \A c \in CounterNames : counters'[c] >= counters[c]]_vars

C20_Witness ==
  /\ workerCount = 1
  /\ \A j \in Jobs : Finished(j)
  /\ counters["fixed"] = 1
  /\ counters["notFixed"] = 1
  /\ counters["notReconstructed"] = 2
  /\ counters["reconstructed"] = 0

====
